---- MODULE Spec2Model ----
(***************************************************************************)
(* The tracker engine of the tracker platform: TrackerEngine               *)
(* (createTracker, runTracker, enrichResults, getTrackerWithResults), the  *)
(* FirecrawlService search adapter it calls, the POST /api/trackers        *)
(* handler, and the three tables of the schema that they read and write.   *)
(* The search, completion and persistence services are external: every     *)
(* call to one of them answers with one of the outcomes enumerated below.  *)
(* Then the result pipeline: ResultProcessor (deduplicateResults,          *)
(* enrichWithAI, processMedia, rankResults, formatForDisplay),             *)
(* SmartRouter.processResults and KoreanBeautyTracker.mergeAndDedupe.      *)
(* Then the polling loop of FirecrawlService.crawlSite, and the row level  *)
(* security policies of the schema as they answer who calls the store.     *)
(***************************************************************************)
EXTENDS Naturals, Integers, Sequences, FiniteSets, TLC

(* ---------------------------------------------------------------- bounds *)
\* trackers that may be created
MaxTrackers == 1
\* runTracker invocations, which may overlap
MaxCalls == 2

\* items of the longest list given to an enricher
MaxCollected == 12
\* crawlSite calls, which may overlap
MaxJobs == 2
\* polls of one crawl that are counted
MaxPolls == 2
\* rows a table holds under the policies
MaxRows == 2

(* ------------------------------------------------------------- constants *)
\* enrichResults sends results.slice(0, 10) to the completion service
EnrichSlice == 10
\* searchWithFirecrawl asks for 5 items per query
SearchLimit == 5

(* ------------------------------------------------------ JavaScript values *)
\* undefined / null, as a string so that it compares with strings
Undefined == "undefined"
Falsy(s) == s \in {Undefined, ""}
\* a || b
JsOr(a, b) == IF Falsy(a) THEN b ELSE a

Min(a, b) == IF a < b THEN a ELSE b
Range(s) == {s[i] : i \in 1..Len(s)}

RECURSIVE Flatten(_)
Flatten(ss) == IF ss = <<>> THEN <<>> ELSE Head(ss) \o Flatten(Tail(ss))

\* Array.prototype.slice(0, n)
Slice(s, n) == SubSeq(s, 1, Min(n, Len(s)))

\* Array.prototype.map
Map(s, F(_)) == [i \in 1..Len(s) |-> F(s[i])]

(* --------------------------------------------------------------- identifiers *)
NoId == 0
TrackerIds == 1..MaxTrackers
Calls == 1..MaxCalls

VARIABLES
    trackers,         \* table trackers: id -> row
    tracker_runs,     \* table tracker_runs: id -> row
    tracker_results,  \* table tracker_results: set of rows
    clock,            \* NOW() / new Date()
    lastTrackerId,    \* identifiers handed out to trackers so far
    calls,            \* the runTracker invocations: position, locals, return
    processing,       \* the result pipeline: its stage and the items it holds
    crawl,            \* the crawlSite calls: position, last status, return
    session           \* the last request made to the store under its policies

\* the variables the engine and the pipeline leave alone
CrawlAndSession == <<crawl, session>>

vars == <<trackers, tracker_runs, tracker_results, clock, lastTrackerId,
          calls, processing, CrawlAndSession>>

(* ------------------------------------------------------- JSON values *)
\* A value read out of parsed JSON: an array (items), undefined, or a value
\* of another type ("string": has a length, no map; "object": neither).
JsUndefined == [kind |-> "undefined", items |-> <<>>]
JsArray(s) == [kind |-> "array", items |-> s]
JsString == [kind |-> "string", items |-> <<>>]
JsObject == [kind |-> "object", items |-> <<>>]
\* v || d for such a value (an empty array is truthy)
JsOrValue(v, d) == IF v.kind = "undefined" THEN d ELSE v
\* v.length > 0
HasLength(v) ==
    \/ v.kind = "array" /\ Len(v.items) > 0
    \/ v.kind = "string"
\* v.map / for (... of v) would not throw
Iterable(v) == v.kind = "array"

(* --------------------------------------------------- times and statuses *)
NoTime == 0
\* metadata.results_count when the stored value is undefined
NoCount == 0 - 1
Statuses == {"pending", "running", "completed", "failed"}

(* ------------------------------------------- FirecrawlService.search *)
\* items the search client can return (title, url, screenshot, score)
Raw1 == [title |-> "t1", url |-> "u1", screenshot |-> "s1", score |-> 2]
Raw2 == [title |-> "", url |-> "u2", screenshot |-> Undefined, score |-> 1]
\* outcomes of this.client.search(query, {limit}): it throws, or answers
\* with no data, or with at most `limit` items
ClientSearchOutcomes(limit) ==
    {[kind |-> "throw", data |-> JsUndefined],
     [kind |-> "ok", data |-> JsUndefined]}
    \cup {[kind |-> "ok", data |-> JsArray(d)] :
            d \in {l \in {<<Raw2, Raw1>>} : Len(l) <= limit}}

\* search(): the catch turns a throw into {success: false}; data is
\* results.data?.map(...) || []
FirecrawlSearch(outcome) ==
    IF outcome.kind = "throw"
    THEN [success |-> FALSE, data |-> JsUndefined]
    ELSE [success |-> TRUE,
          data |-> JsArray(JsOrValue(outcome.data, JsArray(<<>>)).items)]

\* the TrackerResult searchWithFirecrawl makes of one item
ToTrackerResult(item) ==
    [title |-> JsOr(item.title, "Untitled"),
     url |-> item.url,
     images |-> IF Falsy(item.screenshot) THEN <<>> ELSE <<item.screenshot>>,
     source |-> "firecrawl",
     score |-> item.score]

\* searchWithFirecrawl(query): [] unless the search succeeded with data
SearchWithFirecrawl(outcome) ==
    LET result == FirecrawlSearch(outcome)
    IN  IF ~result.success \/ result.data.kind = "undefined"
        THEN <<>>
        ELSE Map(result.data.items, ToTrackerResult)

(* ------------------------------------------------- enrichResults *)
\* the whole list sent to the completion service
EnrichPayload_All(results) == results

\* results.slice(0, 10): what enrichResults sends to the completion service
EnrichPayload(results) == Slice(results, EnrichSlice)

\* the items of a model answer: the payload with new scores
Rescored(payload) ==
    [i \in 1..Len(payload) |->
        [payload[i] EXCEPT !.score = Len(payload) + 1 - i]]

\* outcomes of the completion call on a payload: the call throws, or its
\* content is not JSON, or is empty, or is JSON whose "results" is absent,
\* an array, or a value of another type
CompletionOutcomes(payload) ==
    {[kind |-> k, results |-> JsUndefined] :
        k \in {"throw", "invalid_json", "empty_content"}}
    \cup {[kind |-> "json", results |-> v] :
            v \in {JsUndefined, JsString, JsObject,
                   JsArray(Rescored(payload))}}

\* enrichResults without the fallback: a content that is no JSON gives no items
EnrichResults_NoFallback(results, outcome) ==
    IF Len(results) = 0 THEN JsArray(<<>>)
    ELSE CASE outcome.kind = "throw" -> JsArray(results)
           [] outcome.kind \in {"invalid_json", "empty_content"} -> JsArray(<<>>)
           [] OTHER -> JsOrValue(outcome.results, JsArray(results))

\* enrichResults(results, prompt) given the outcome of its completion call
EnrichResults(results, outcome) ==
    IF Len(results) = 0 THEN JsArray(<<>>)
    ELSE CASE outcome.kind \in {"throw", "invalid_json"} -> JsArray(results)
           [] outcome.kind = "empty_content" -> JsArray(<<>>)
           [] OTHER -> JsOrValue(outcome.results, JsArray(results))

(* ---------------------------------------------------- parsePrompt *)
\* outcomes of parsePrompt's completion call: it throws (or its content is
\* not JSON), or it is a JSON object with some of the keys asked for
ParseOutcomes ==
    {[kind |-> "throw", name |-> Undefined,
      sources |-> JsUndefined, queries |-> JsUndefined],
     \* all keys, as asked
     [kind |-> "json", name |-> "n", sources |-> JsArray(<<"web">>),
      queries |-> JsArray(<<"q1", "q2">>)],
     \* {}
     [kind |-> "json", name |-> Undefined,
      sources |-> JsUndefined, queries |-> JsUndefined]}

\* parsePrompt(prompt): the parsed object, or the fallback of the catch
ParsePrompt(prompt, outcome) ==
    IF outcome.kind = "throw"
    \* prompt.slice(0, 50): the prompts here are shorter than 50
    THEN [name |-> prompt, sources |-> JsArray(<<"web">>),
          queries |-> JsArray(<<prompt>>)]
    ELSE [name |-> outcome.name, sources |-> outcome.sources,
          queries |-> outcome.queries]

(* --------------------------------------------------- createTracker *)
\* config.isPublic || true, for isPublic in "true", "false", undefined
IsPublicOrTrue(isPublic) == IF isPublic = "true" THEN TRUE ELSE TRUE

\* the row createTracker inserts, without its name and description; the
\* columns it leaves out take the defaults of the schema (sources '[]',
\* user_id and last_run_at null)
NewTrackerRow(config, parsed) ==
    [prompt |-> config.prompt,
     config |-> [queries |-> parsed.queries, platforms |-> parsed.sources],
     sources |-> JsOrValue(parsed.sources, JsArray(<<>>)),
     is_public |-> IsPublicOrTrue(config.isPublic),
     user_id |-> Undefined,
     last_run_at |-> NoTime]

\* table trackers: name TEXT NOT NULL (name is config.name || parsed.name)
NameAccepted(config, parsed) == JsOr(config.name, parsed.name) # Undefined

FreshTrackerId == lastTrackerId + 1

Prompts == {"", "p"}
Names == {Undefined, "n"}
IsPublicValues == {"true", "false", Undefined}
TrackerConfigs == [prompt : Prompts, name : Names, isPublic : IsPublicValues]

\* createTracker(config): parse the prompt, insert the row, return
\* {success: true, tracker} or {success: false, error}
CreateTrackerEffect(config, outcome, dbOk) ==
    LET parsed == ParsePrompt(config.prompt, outcome)
        row == NewTrackerRow(config, parsed)
        ok == dbOk /\ NameAccepted(config, parsed)
        id == FreshTrackerId
    IN  [success |-> ok,
         id |-> IF ok THEN id ELSE NoId,
         table |-> IF ok THEN (id :> row) @@ trackers ELSE trackers]

(* ------------------------------------------------------ runTracker *)
\* what an invocation that has not returned has returned
NoReturn == [success |-> FALSE, error |-> Undefined]

\* An invocation: where it stands (pc), its locals and, once it is done,
\* what it returned (ret). trackerId is the argument, tracker the row it
\* read, run the id of the run it created, todo the queries still to search,
\* outcomes what the searches answered, results the items collected,
\* enriched what enrichResults returned, count its length, and log what
\* the invocation went through: "search_failed" (a search threw),
\* "collected_nothing" (the searches gave no item), "invalid_json" (the
\* completion content was no JSON), "results_not_array" (the map threw),
\* "results_insert_error" and "run_update_error" (the store refused).
\* A local holds its initial value again once it is read no more.
IdleCall ==
    [pc |-> "idle", trackerId |-> NoId, tracker |-> <<>>, run |-> NoId,
     todo |-> <<>>, outcomes |-> <<>>, results |-> <<>>,
     enriched |-> JsUndefined, count |-> NoCount, log |-> {},
     ret |-> NoReturn]

\* the catch returning one message whatever was thrown
RunFailure_Generic(message) ==
    [success |-> FALSE, error |-> "Failed to run tracker"]

\* {success: false, error}: what the catch of runTracker returns
RunFailure(message) == [success |-> FALSE, error |-> message]

\* {success: true, results, runId}
RunSuccess == [success |-> TRUE, error |-> Undefined]

\* the invocation after its return
Returned(c, ret) ==
    [IdleCall EXCEPT !.pc = "done", !.trackerId = c.trackerId, !.run = c.run,
                     !.log = c.log, !.ret = ret]

\* the run inserted as 'pending'
NewRunRow_Pending(trackerId, now) ==
    [tracker_id |-> trackerId, status |-> "pending", error |-> Undefined,
     started_at |-> now, results_count |-> NoCount]

\* the row runTracker inserts into tracker_runs
NewRunRow(trackerId, now) ==
    [tracker_id |-> trackerId, status |-> "running", error |-> Undefined,
     started_at |-> now, results_count |-> NoCount]

\* tracker.config?.queries || [tracker.prompt]
QueriesOf(tracker) ==
    JsOrValue(tracker.config.queries, JsArray(<<tracker.prompt>>))

\* a search that gave nothing empties the list
PushResults_Reset(results, searchResult) ==
    IF searchResult = <<>> THEN <<>> ELSE results \o searchResult

\* results.push(...searchResult)
PushResults(results, searchResult) == results \o searchResult

\* the rows without their run_id
ResultsToInsert_NoRun(p, runId, trackerId, enriched) ==
    {[id |-> <<p, i>>, run_id |-> NoId, tracker_id |-> trackerId,
      title |-> enriched[i].title, url |-> enriched[i].url,
      images |-> enriched[i].images, source |-> enriched[i].source,
      score |-> enriched[i].score] : i \in 1..Len(enriched)}

\* the rows runTracker builds from the enriched results, for invocation p
ResultsToInsert(p, runId, trackerId, enriched) ==
    {[id |-> <<p, i>>, run_id |-> runId, tracker_id |-> trackerId,
      title |-> enriched[i].title, url |-> enriched[i].url,
      images |-> enriched[i].images, source |-> enriched[i].source,
      score |-> enriched[i].score] : i \in 1..Len(enriched)}

\* a run without results marked 'failed'
CompletedRun_FailEmpty(row, count) ==
    [row EXCEPT !.status = IF count = 0 THEN "failed" ELSE "completed",
                !.results_count = count]

\* the update runTracker makes to its run when the results are saved
CompletedRun(row, count) ==
    [row EXCEPT !.status = "completed", !.results_count = count]

\* enrichedResults.length, NoCount for undefined
LengthOf(v) == IF v.kind = "array" THEN Len(v.items) ELSE NoCount

\* the foreign keys of tracker_runs and tracker_results: a reference is
\* null or the id of a row
RunRowAccepted(row) == row.tracker_id \in DOMAIN trackers \cup {NoId}
ResultRowsAccepted(rows) ==
    \A r \in rows : /\ r.run_id \in DOMAIN tracker_runs \cup {NoId}
                    /\ r.tracker_id \in DOMAIN trackers \cup {NoId}

\* crawlSite calls that may overlap
Jobs == 1..MaxJobs

\* a crawlSite call: where it stands (pc), the polls it has made (up to
\* MaxPolls, counted no further), the status its last poll read and, once it
\* is done, what it returned
IdleCrawl ==
    [pc |-> "idle", polls |-> 0, status |-> Undefined, ret |-> NoReturn]

\* no request has been made to the store under its policies; a request is
\* recorded with its caller, its operation and table, the user_id of the row
\* it gave (insert into trackers), whether the policies let it through, and
\* the identifiers of the trackers and runs and the results it read
NoSession ==
    [caller |-> Undefined, op |-> "none", table |-> "none",
     user_id |-> Undefined, permitted |-> FALSE,
     trackers |-> {}, runs |-> {}, results |-> {}]

\* the pipeline before it is given a list
NoProcessing ==
    [stage |-> "none", input |-> <<>>, previous |-> <<>>, items |-> <<>>]

(* ------------------------------------------------------------ Init *)
Init ==
    /\ trackers = <<>>
    /\ tracker_runs = <<>>
    /\ tracker_results = {}
    /\ clock = 1
    /\ lastTrackerId = 0
    /\ calls = [p \in Calls |-> IdleCall]
    /\ processing = NoProcessing
    /\ crawl = [j \in Jobs |-> IdleCrawl]
    /\ session = NoSession

\* the invocations start in the order of their numbers
CanStart(p) ==
    /\ calls[p].pc = "idle"
    /\ \A q \in Calls : q < p => calls[q].pc # "idle"

Store == <<trackers, tracker_runs, tracker_results, clock, lastTrackerId>>

(* --------------------------------------------------- entry points *)
\* engine.createTracker(config), called directly
CreateTracker(config) ==
    /\ lastTrackerId < MaxTrackers
    /\ \E outcome \in ParseOutcomes, dbOk \in BOOLEAN :
         LET e == CreateTrackerEffect(config, outcome, dbOk)
         IN  /\ trackers' = e.table
             /\ lastTrackerId' = IF e.success THEN e.id ELSE lastTrackerId
    /\ UNCHANGED <<tracker_runs, tracker_results, clock, calls,
                   processing, CrawlAndSession>>

\* engine.runTracker(trackerId), called directly: invocation p begins
RunTracker(p, trackerId) ==
    /\ CanStart(p)
    /\ calls' = [calls EXCEPT ![p] =
                    [IdleCall EXCEPT !.pc = "select", !.trackerId = trackerId]]
    /\ UNCHANGED <<Store, processing, CrawlAndSession>>

\* body.isPublic !== false
NotFalse(isPublic) == IF isPublic = "false" THEN "false" ELSE "true"

PostBodies == [prompt : Prompts \cup {Undefined}, name : Names,
               isPublic : IsPublicValues]

\* if (!prompt): the request is answered 400
PostRejected(body) == Falsy(body.prompt)

\* the configuration the route hands to createTracker
PostConfig(body) ==
    [prompt |-> body.prompt, name |-> body.name,
     isPublic |-> NotFalse(body.isPublic)]

\* POST /api/trackers: 400 without a prompt, else createTracker, 500 when it
\* fails (in both cases nothing has changed), else runTracker on the new
\* tracker, as invocation p
Post(body, p) ==
    /\ CanStart(p)
    /\ lastTrackerId < MaxTrackers
    /\ IF PostRejected(body)
       THEN UNCHANGED vars
       ELSE
         /\ \E outcome \in ParseOutcomes, dbOk \in BOOLEAN :
              LET e == CreateTrackerEffect(PostConfig(body), outcome, dbOk)
              IN  /\ trackers' = e.table
                  /\ lastTrackerId' = IF e.success THEN e.id ELSE lastTrackerId
                  /\ calls' = IF e.success
                              THEN [calls EXCEPT ![p] =
                                      [IdleCall EXCEPT !.pc = "select",
                                                       !.trackerId = e.id]]
                              ELSE calls
         /\ UNCHANGED <<tracker_runs, tracker_results, clock,
                        processing, CrawlAndSession>>

(* ------------------------------------------- the steps of runTracker *)
\* the catch: log the error, return {success: false, error}
Throw(p, c, message) ==
    calls' = [calls EXCEPT ![p] = Returned(c, RunFailure(message))]

Goto(p, c, pc) ==
    calls' = [calls EXCEPT ![p] = [c EXCEPT !.pc = pc]]

Logged(c, failed, what) == IF failed THEN c.log \cup {what} ELSE c.log

\* select the tracker; 'Tracker not found' when there is no such row
SelectTracker(p) ==
    LET c == calls[p] IN
    /\ c.pc = "select"
    /\ \E dbOk \in BOOLEAN :
         IF dbOk /\ c.trackerId \in DOMAIN trackers
         THEN Goto(p, [c EXCEPT !.tracker = trackers[c.trackerId]], "insert_run")
         ELSE Throw(p, c, "Tracker not found")
    /\ UNCHANGED <<Store, processing, CrawlAndSession>>

\* insert the run with status 'running' (runError is thrown), then take the
\* queries of the configuration
InsertRun(p) ==
    LET c == calls[p]
        row == NewRunRow(c.trackerId, clock)
        queries == QueriesOf(c.tracker)
    IN
    /\ c.pc = "insert_run"
    /\ \E dbOk \in BOOLEAN :
         IF dbOk /\ RunRowAccepted(row)
         THEN /\ tracker_runs' = (p :> row) @@ tracker_runs
              /\ clock' = clock + 1
              /\ Goto(p, [c EXCEPT !.run = p, !.todo = queries.items,
                                   !.tracker = <<>>],
                      IF queries.items = <<>> THEN "enrich" ELSE "search")
         ELSE /\ Throw(p, c, "Failed to run tracker")
              /\ UNCHANGED <<tracker_runs, clock>>
    /\ UNCHANGED <<trackers, tracker_results, lastTrackerId,
                   processing, CrawlAndSession>>

\* one turn of the loop over the queries: search and push what it gives
Search(p) ==
    LET c == calls[p] IN
    /\ c.pc = "search"
    /\ \E outcome \in ClientSearchOutcomes(SearchLimit) :
         Goto(p, [c EXCEPT
                    !.todo = Tail(c.todo),
                    !.outcomes = Append(c.outcomes, outcome),
                    !.results = PushResults(c.results,
                                            SearchWithFirecrawl(outcome)),
                    !.log = Logged(c, outcome.kind = "throw", "search_failed")
                            \cup IF Tail(c.todo) = <<>>
                                    /\ PushResults(c.results,
                                         SearchWithFirecrawl(outcome)) = <<>>
                                 THEN {"collected_nothing"} ELSE {}],
              IF Tail(c.todo) = <<>> THEN "enrich" ELSE "search")
    /\ UNCHANGED <<Store, processing, CrawlAndSession>>

\* no completion call was made
NoCompletion == [kind |-> "none", results |-> JsUndefined]

\* enrichResults, then the test of enrichedResults.length and the map that
\* builds the rows: map is no function of a value that is no array
Enrich(p) ==
    LET c == calls[p] IN
    /\ c.pc = "enrich"
    /\ \E outcome \in IF c.results = <<>> THEN {NoCompletion}
                      ELSE CompletionOutcomes(EnrichPayload(c.results)) :
         LET enriched == EnrichResults(c.results, outcome)
             d == [c EXCEPT
                     !.outcomes = <<>>,
                     !.enriched = enriched, !.count = LengthOf(enriched),
                     !.log = Logged(c, outcome.kind = "invalid_json",
                                    "invalid_json")]
         IN  IF HasLength(enriched)
             THEN IF Iterable(enriched)
                  THEN Goto(p, d, "insert_results")
                  ELSE Throw(p, [d EXCEPT !.log = @ \cup {"results_not_array"}],
                             "map is not a function")
             ELSE Goto(p, d, "update_run")
    /\ UNCHANGED <<Store, processing, CrawlAndSession>>

\* insert the rows; the error the insert may return is not looked at
InsertResults(p) ==
    LET c == calls[p]
        rows == ResultsToInsert(p, c.run, c.trackerId, c.enriched.items)
    IN
    /\ c.pc = "insert_results"
    /\ \E dbOk \in BOOLEAN :
         LET ok == dbOk /\ ResultRowsAccepted(rows) IN
         /\ tracker_results' = IF ok THEN tracker_results \cup rows
                               ELSE tracker_results
         /\ Goto(p, [c EXCEPT !.results = <<>>, !.enriched = JsUndefined,
                              !.log = Logged(c, ~ok, "results_insert_error")],
                 "update_run")
    /\ UNCHANGED <<trackers, tracker_runs, clock, lastTrackerId,
                   processing, CrawlAndSession>>

\* the update matching the runs of the tracker of the invocation
RunsMatched_ByTracker(c) ==
    {r \in DOMAIN tracker_runs : tracker_runs[r].tracker_id = c.trackerId}

\* .eq('id', run.id): the rows the update of the invocation matches
RunsMatched(c) == {c.run} \cap DOMAIN tracker_runs

\* update the run to 'completed'; the error is not looked at
UpdateRun(p) ==
    LET c == calls[p] IN
    /\ c.pc = "update_run"
    /\ \E dbOk \in BOOLEAN :
         LET ok == dbOk /\ RunsMatched(c) # {} IN
         /\ tracker_runs' = IF ok
                            THEN [r \in DOMAIN tracker_runs |->
                                    IF r \in RunsMatched(c)
                                    THEN CompletedRun(tracker_runs[r], c.count)
                                    ELSE tracker_runs[r]]
                            ELSE tracker_runs
         /\ Goto(p, [c EXCEPT !.results = <<>>, !.enriched = JsUndefined,
                              !.count = NoCount,
                              !.log = Logged(c, ~ok, "run_update_error")],
                 "update_tracker")
    /\ UNCHANGED <<trackers, tracker_results, clock, lastTrackerId,
                   processing, CrawlAndSession>>

\* update last_run_at of the tracker, and return {success: true, ...}
UpdateTracker(p) ==
    LET c == calls[p] IN
    /\ c.pc = "update_tracker"
    /\ \E dbOk \in BOOLEAN :
         trackers' = IF dbOk /\ c.trackerId \in DOMAIN trackers
                     THEN [trackers EXCEPT ![c.trackerId].last_run_at = clock]
                     ELSE trackers
    /\ calls' = [calls EXCEPT ![p] = Returned(c, RunSuccess)]
    /\ UNCHANGED <<tracker_runs, tracker_results, clock, lastTrackerId,
                   processing, CrawlAndSession>>

(* ------------------------------------------------------------ Next *)
Next ==
    \/ \E config \in TrackerConfigs : CreateTracker(config)
    \/ \E p \in Calls, id \in TrackerIds : RunTracker(p, id)
    \/ \E body \in PostBodies, p \in Calls : Post(body, p)
    \/ \E p \in Calls : SelectTracker(p)
    \/ \E p \in Calls : InsertRun(p)
    \/ \E p \in Calls : Search(p)
    \/ \E p \in Calls : Enrich(p)
    \/ \E p \in Calls : InsertResults(p)
    \/ \E p \in Calls : UpdateRun(p)
    \/ \E p \in Calls : UpdateTracker(p)

Spec == Init /\ [][Next]_vars

(* --------------------------------------------- two trackers exist *)
\* Two trackers that createTracker stored: one from the fallback of
\* parsePrompt, one from a parsed answer with two queries.
TrackerA ==
    NewTrackerRow([prompt |-> "p", name |-> Undefined, isPublic |-> Undefined],
                  ParsePrompt("p", [kind |-> "throw", name |-> Undefined,
                                    sources |-> JsUndefined,
                                    queries |-> JsUndefined]))
TrackerB ==
    NewTrackerRow([prompt |-> "p", name |-> "n", isPublic |-> Undefined],
                  ParsePrompt("p", [kind |-> "json", name |-> "n",
                                    sources |-> JsArray(<<"web">>),
                                    queries |-> JsArray(<<"q1", "q2">>)]))

InitTwo ==
    /\ trackers = (1 :> TrackerA) @@ (2 :> TrackerB)
    /\ tracker_runs = <<>>
    /\ tracker_results = {}
    /\ clock = 1
    /\ lastTrackerId = 2
    /\ calls = [p \in Calls |-> IdleCall]
    /\ processing = NoProcessing
    /\ crawl = [j \in Jobs |-> IdleCrawl]
    /\ session = NoSession

NextTwo ==
    \/ \E p \in Calls, id \in DOMAIN trackers : RunTracker(p, id)
    \/ \E p \in Calls : SelectTracker(p)
    \/ \E p \in Calls : InsertRun(p)
    \/ \E p \in Calls : Search(p)
    \/ \E p \in Calls : Enrich(p)
    \/ \E p \in Calls : InsertResults(p)
    \/ \E p \in Calls : UpdateRun(p)
    \/ \E p \in Calls : UpdateTracker(p)

SpecTwo == InitTwo /\ [][NextTwo]_vars

(* ------------------------------------------- deleting a tracker *)
\* DELETE FROM trackers WHERE id = trackerId, and what ON DELETE CASCADE
\* removes with the row: the runs that reference the tracker, and the results
\* that reference the tracker or one of those runs
TrackersAfterDelete(trackerId) ==
    [t \in DOMAIN trackers \ {trackerId} |-> trackers[t]]

CascadedRuns(trackerId) ==
    {r \in DOMAIN tracker_runs : tracker_runs[r].tracker_id = trackerId}

RunsAfterDelete(trackerId) ==
    [r \in DOMAIN tracker_runs \ CascadedRuns(trackerId) |-> tracker_runs[r]]

\* the results left in place by the delete
ResultsAfterDelete_NoCascade(trackerId) == tracker_results

ResultsAfterDelete(trackerId) ==
    {row \in tracker_results :
        /\ row.tracker_id # trackerId
        /\ row.run_id \notin CascadedRuns(trackerId)}

\* the owner deletes a tracker; the store may refuse (row level security)
DeleteTracker(trackerId) ==
    /\ trackerId \in DOMAIN trackers
    /\ \E dbOk \in BOOLEAN :
         IF dbOk
         THEN /\ trackers' = TrackersAfterDelete(trackerId)
              /\ tracker_runs' = RunsAfterDelete(trackerId)
              /\ tracker_results' = ResultsAfterDelete(trackerId)
              /\ UNCHANGED <<clock, lastTrackerId, calls,
                             processing, CrawlAndSession>>
         ELSE UNCHANGED vars

NextDelete ==
    \/ \E config \in TrackerConfigs : CreateTracker(config)
    \/ \E p \in Calls, id \in TrackerIds : RunTracker(p, id)
    \/ \E body \in PostBodies, p \in Calls : Post(body, p)
    \/ \E p \in Calls : SelectTracker(p)
    \/ \E p \in Calls : InsertRun(p)
    \/ \E p \in Calls : Search(p)
    \/ \E p \in Calls : Enrich(p)
    \/ \E p \in Calls : InsertResults(p)
    \/ \E p \in Calls : UpdateRun(p)
    \/ \E p \in Calls : UpdateTracker(p)
    \/ \E id \in TrackerIds : DeleteTracker(id)

SpecDelete == Init /\ [][NextDelete]_vars

(* ------------------------------------------ getTrackerWithResults *)
RunsOf(trackerId) ==
    {r \in DOMAIN tracker_runs : tracker_runs[r].tracker_id = trackerId}

\* order('started_at', {ascending: false}).limit(1): the run started last
LatestRun(trackerId) ==
    IF RunsOf(trackerId) = {} THEN NoId
    ELSE CHOOSE r \in RunsOf(trackerId) :
            \A q \in RunsOf(trackerId) :
                tracker_runs[q].started_at <= tracker_runs[r].started_at

\* order('score', {ascending: false})
RECURSIVE OrderByScore(_)
OrderByScore(rows) ==
    IF rows = {} THEN <<>>
    ELSE LET top == CHOOSE r \in rows : \A q \in rows : q.score <= r.score
         IN  <<top>> \o OrderByScore(rows \ {top})

\* getTrackerWithResults(trackerId) when the store answers its selects
GetTrackerWithResults(trackerId) ==
    IF trackerId \notin DOMAIN trackers
    THEN [success |-> FALSE, latestRun |-> NoId, results |-> <<>>]
    ELSE LET latestRun == LatestRun(trackerId)
         IN  [success |-> TRUE, latestRun |-> latestRun,
              results |-> IF latestRun = NoId THEN <<>>
                          ELSE OrderByScore({r \in tracker_results :
                                                r.run_id = latestRun})]

(* ------------------------------------------------ ResultProcessor *)
\* items per call of enrichWithAI
BatchSize == 5
\* media kept per item by processMedia
MaxMedia == 4
\* longest list given to the pipeline, the scenario of five items apart
MaxItems == 3

\* createHash('md5').update(text).digest('hex'): the digest of a text, two
\* texts having the same digest only when they are the same text
Md5(text) == "md5:" \o text

\* relevanceScore when the item has none: (a.relevanceScore || 0)
NoScore == 0

\* a || '' on a text
OrEmpty(text) == IF Falsy(text) THEN "" ELSE text

\* An item as the adapters return it (any): the fields the pipeline reads. A
\* field that is absent holds Undefined (texts), JsUndefined (images, media),
\* NoTime (dates), 0 (mentions) or <<>> (sources).
RawItem(title, content, url, images, source) ==
    [id |-> Undefined, title |-> title, content |-> content, url |-> url,
     images |-> images, screenshot |-> Undefined, source |-> source,
     sources |-> <<>>, mentions |-> 0, publishedDate |-> NoTime,
     relevanceScore |-> NoScore, enrichedAt |-> NoTime,
     media |-> JsUndefined]

Item1 == [RawItem("a", "b", "u1", JsArray(<<"i1">>), "exa")
            EXCEPT !.mentions = 2, !.publishedDate = 9]
\* the same title, content and URL from another source
Item2 == [RawItem("a", "b", "u1", JsArray(<<"i1", "i2">>), "firecrawl")
            EXCEPT !.mentions = 3, !.publishedDate = 1]
\* the same title and URL, no content
Item3 == [RawItem("a", Undefined, "u1", JsUndefined, "web")
            EXCEPT !.screenshot = "s1"]
\* no title
Item4 == RawItem(Undefined, Undefined, "u2", JsUndefined, "exa")
\* no title, no URL
Item5 == RawItem(Undefined, "", Undefined, JsArray(<<"i3">>), "firecrawl")
\* the URL of Item1 under another title, with an id of its own
Item6 == [RawItem("c", "b", "u1", JsArray(<<>>), "firecrawl")
            EXCEPT !.id = "k"]

ItemPool == {Item1, Item2, Item3, Item4, Item5, Item6}

RECURSIVE ListsUpTo(_, _)
ListsUpTo(pool, n) ==
    IF n = 0 THEN {<<>>}
    ELSE LET shorter == ListsUpTo(pool, n - 1)
         IN  shorter \cup {Append(l, x) : l \in shorter, x \in pool}

\* adapter A returns three items and adapter B two, and the first item of B
\* has the URL of the first item of A
ScenarioA ==
    <<[RawItem("a1", "c1", "u1", JsArray(<<"i1">>), "exa")
         EXCEPT !.publishedDate = 9],
      RawItem("a2", "c2", "u2", JsUndefined, "exa"),
      RawItem("a3", "c3", "u3", JsUndefined, "exa")>>
ScenarioB ==
    <<RawItem("b1", "d1", "u1", JsUndefined, "firecrawl"),
      RawItem("b2", "d2", "u4", JsArray(<<"i2">>), "firecrawl")>>
Scenario == ScenarioA \o ScenarioB

RawLists == ListsUpTo(ItemPool, MaxItems) \cup {Scenario}

\* mergeResults(existing, duplicate): existing as the merge leaves it
MergeResults(existing, duplicate) ==
    LET images == IF duplicate.images.kind = "undefined"
                  THEN existing.images
                  ELSE JsArray(JsOrValue(existing.images, JsArray(<<>>)).items
                               \o duplicate.images.items)
        content == IF \/ Falsy(existing.content)
                      \/ /\ duplicate.content # Undefined
                         /\ Len(duplicate.content) > Len(existing.content)
                   THEN duplicate.content
                   ELSE existing.content
    IN  [existing EXCEPT !.images = images,
                         !.sources = Append(existing.sources, duplicate.source),
                         !.content = content]

\* the hash deduplicateResults takes of an item
ContentHash(result) == Md5(OrEmpty(result.title) \o OrEmpty(result.content))

\* calculateSimilarity(hash1, hash2)
CalculateSimilarity(hash1, hash2) == IF hash1 = hash2 THEN 1 ELSE 0

\* One turn of the loop of deduplicateResults. unique is the list built so
\* far and hashes[i] the hash under which unique[i] was entered in
\* contentHashes: a Map of distinct hashes in the order of insertion, whose
\* values are the very objects of unique.
DedupStep(state, result) ==
    LET hash == ContentHash(result)
        hits == {i \in 1..Len(state.unique) :
                    CalculateSimilarity(hash, state.hashes[i]) * 100 > 85}
    IN  IF hits # {}
        THEN LET i == CHOOSE h \in hits : \A g \in hits : h <= g
             IN  [state EXCEPT !.unique[i] = MergeResults(@, result)]
        ELSE [unique |-> Append(state.unique, result),
              hashes |-> Append(state.hashes, hash)]

RECURSIVE DedupLoop(_, _)
DedupLoop(state, results) ==
    IF results = <<>> THEN state
    ELSE DedupLoop(DedupStep(state, Head(results)), Tail(results))

\* deduplicateResults(results)
DeduplicateResults(results) ==
    DedupLoop([unique |-> <<>>, hashes |-> <<>>], results).unique

\* the scores an analysis may give to an item (NoScore: none for it)
Scores == {NoScore, 1, 2}

\* results.slice(i, i + batchSize) for i = 0, batchSize, ...
RECURSIVE Batches(_)
Batches(results) ==
    IF results = <<>> THEN <<>>
    ELSE <<Slice(results, BatchSize)>>
         \o Batches(SubSeq(results, Min(BatchSize, Len(results)) + 1,
                           Len(results)))

\* outcomes of the completion call of one batch: the call or JSON.parse
\* throws or the answer has no items ("throw"), or analysis.items gives each
\* item of the batch a relevanceScore or nothing
AnalysisOutcomes(batch) ==
    {[kind |-> "throw", items |-> <<>>]}
    \cup {[kind |-> "json", items |-> scores] :
            scores \in [1..Len(batch) -> Scores]}

\* {...result, ...analysis.items[index], enrichedAt: new Date()}
Enriched(result, score, now) ==
    [result EXCEPT !.relevanceScore = IF score = NoScore THEN @ ELSE score,
                   !.enrichedAt = now]

\* enrichWithAI(results, config), given the outcome of the call of each batch;
\* it has no catch
EnrichWithAI(results, analyses, now) ==
    LET batches == Batches(results) IN
    IF \E b \in 1..Len(batches) : analyses[b].kind = "throw"
    THEN [threw |-> TRUE, items |-> <<>>]
    ELSE [threw |-> FALSE,
          items |-> Flatten([b \in 1..Len(batches) |->
                        [i \in 1..Len(batches[b]) |->
                            Enriched(batches[b][i], analyses[b].items[i],
                                     now)]])]

\* processMedia: the screenshot (priority 1), then the images (priority 2),
\* the first four of them
ProcessMedia(result) ==
    LET shot == IF Falsy(result.screenshot) THEN <<>>
                ELSE <<[type |-> "screenshot", url |-> result.screenshot]>>
        imgs == [i \in 1..Len(result.images.items) |->
                    [type |-> "image", url |-> result.images.items[i]]]
    IN  [result EXCEPT !.media = JsArray(Slice(shot \o imgs, MaxMedia))]

\* a.publishedDate || a.enrichedAt
DateOf(a) == IF a.publishedDate = NoTime THEN a.enrichedAt ELSE a.publishedDate

Max(a, b) == IF a > b THEN a ELSE b

\* the score rankResults gives an item at nowTime (times in days)
RankScore(a, nowTime) ==
    a.relevanceScore * 10
    + Len(a.media.items) * 5
    + Max(0, 10 - (nowTime - DateOf(a)))
    + (IF a.source \in {"exa", "firecrawl"} THEN 3 ELSE 0)

\* Array.prototype.sort by a key, descending: a stable sort, so that items of
\* equal key keep their order
SortDescending(items, keys) ==
    LET n == Len(items)
        Place(i) == Cardinality({j \in 1..n :
                        \/ keys[j] > keys[i]
                        \/ keys[j] = keys[i] /\ j <= i})
    IN  [k \in 1..n |-> items[CHOOSE i \in 1..n : Place(i) = k]]

\* rankResults(results, config) called at nowTime
RankResults(results, nowTime) ==
    SortDescending(results,
                   [i \in 1..Len(results) |-> RankScore(results[i], nowTime)])

\* the hash taken of the title
DisplayId_OfTitle(result) ==
    IF Falsy(result.id) THEN Md5(OrEmpty(result.title)) ELSE result.id

\* result.id || createHash('md5').update(result.url).digest('hex')
DisplayId(result) == IF Falsy(result.id) THEN Md5(result.url) ELSE result.id

\* update(undefined) throws a TypeError
FormatThrows(results) ==
    \E i \in 1..Len(results) :
        Falsy(results[i].id) /\ results[i].url = Undefined

\* formatForDisplay(results): the records, without the moment of processing
FormatForDisplay(results) ==
    [i \in 1..Len(results) |->
        [id |-> DisplayId(results[i]),
         position |-> i,
         title |-> results[i].title,
         url |-> results[i].url,
         source |-> results[i].source,
         media |-> JsOrValue(results[i].media, JsArray(<<>>)).items,
         relevance |-> results[i].relevanceScore,
         engagement |-> results[i].mentions,
         publishedAt |-> results[i].publishedDate]]

(* --------------------------------------- SmartRouter.processResults *)
\* results.filter(r => unseen(r.url)): the first item of each URL
FirstOfEachUrl(results) ==
    LET keep == {i \in 1..Len(results) :
                    \A j \in 1..(i - 1) : results[j].url # results[i].url}
        Nth(k) == CHOOSE i \in keep : Cardinality({j \in keep : j <= i}) = k
    IN  [k \in 1..Cardinality(keep) |-> results[Nth(k)]]

\* (a.images?.length || 0) + (a.screenshot ? 1 : 0)
HasMedia(a) ==
    Len(a.images.items) + (IF Falsy(a.screenshot) THEN 0 ELSE 1)

\* processResults(results): unique by URL, then sorted by media, then by
\* new Date(publishedDate || 0), both descending
ProcessResults(results) ==
    LET unique == FirstOfEachUrl(results)
        byDate == SortDescending(unique,
                      [i \in 1..Len(unique) |-> unique[i].publishedDate])
    \* the order of (media, date): by media, the equals staying by date
    IN  SortDescending(byDate,
                       [i \in 1..Len(byDate) |-> HasMedia(byDate[i])])

(* ------------------------------- KoreanBeautyTracker.mergeAndDedupe *)
\* item.productName.toLowerCase(), for the names used here
ToLowerCase(name) == IF name = "Cream" THEN "cream" ELSE name

\* [...new Set(list)]
RECURSIVE Unique(_)
Unique(list) ==
    IF list = <<>> THEN <<>>
    ELSE LET front == Unique(SubSeq(list, 1, Len(list) - 1))
             last == list[Len(list)]
         IN  IF last \in Range(front) THEN front ELSE Append(front, last)

Trend(productName, platforms, mentions, images) ==
    [productName |-> productName, platforms |-> platforms,
     mentions |-> mentions, images |-> images]

TrendPool ==
    {Trend("Cream", <<"TikTok">>, 2, <<"i1">>),
     Trend("cream", <<"Instagram", "TikTok">>, 3, <<"i1", "i2">>),
     Trend("serum", <<"Instagram">>, 0, <<>>),
     Trend(Undefined, <<"Instagram">>, 1, <<"i3">>)}

\* One turn of items.forEach: keys are the keys of productMap in the order of
\* insertion and values their values
MergeStep(map, item) ==
    IF Falsy(item.productName) THEN map
    ELSE LET key == ToLowerCase(item.productName)
             at == {i \in 1..Len(map.keys) : map.keys[i] = key}
         IN  IF at # {}
             THEN LET i == CHOOSE a \in at : TRUE
                      existing == map.values[i]
                  IN  [map EXCEPT !.values[i] =
                        [existing EXCEPT
                           !.platforms = Unique(existing.platforms
                                                \o item.platforms),
                           !.mentions = existing.mentions + item.mentions,
                           !.images = Unique(existing.images \o item.images)]]
             ELSE [keys |-> Append(map.keys, key),
                   values |-> Append(map.values, item)]

RECURSIVE MergeLoop(_, _)
MergeLoop(map, items) ==
    IF items = <<>> THEN map
    ELSE MergeLoop(MergeStep(map, Head(items)), Tail(items))

\* mergeAndDedupe(items)
MergeAndDedupe(items) ==
    MergeLoop([keys |-> <<>>, values |-> <<>>], items).values

(* ------------------------------------------ the pipeline, step by step *)
\* the moments (in days) at which the pipeline may read the clock
Moments == {10, 20}

\* the pipeline at a stage: the list it was given, the list the last step took
\* and the list it made of it
AtStage(stage, input, previous, items) ==
    [stage |-> stage, input |-> input, previous |-> previous, items |-> items]

\* process(rawResults, trackerConfig), step 1: deduplicate
ProcessDeduplicate(rawResults) ==
    /\ processing.stage = "none"
    /\ processing' = AtStage("deduped", rawResults, rawResults,
                             DeduplicateResults(rawResults))
    /\ UNCHANGED <<Store, calls, CrawlAndSession>>

\* step 2: enrich with AI; process rejects when enrichWithAI throws
ProcessEnrich ==
    /\ processing.stage = "deduped"
    /\ \E now \in Moments :
       \E analyses \in [1..Len(Batches(processing.items)) ->
                          UNION {AnalysisOutcomes(b) :
                                    b \in Range(Batches(processing.items))}] :
         /\ \A b \in DOMAIN analyses :
               analyses[b] \in AnalysisOutcomes(Batches(processing.items)[b])
         /\ LET e == EnrichWithAI(processing.items, analyses, now)
            IN  processing' =
                  IF e.threw
                  THEN AtStage("failed", processing.input, <<>>, <<>>)
                  ELSE AtStage("enriched", processing.input,
                               processing.items, e.items)
    /\ UNCHANGED <<Store, calls, CrawlAndSession>>

\* step 3: extract the media
ProcessMediaStep ==
    /\ processing.stage = "enriched"
    /\ processing' = AtStage("with_media", processing.input, processing.items,
                             [i \in 1..Len(processing.items) |->
                                 ProcessMedia(processing.items[i])])
    /\ UNCHANGED <<Store, calls, CrawlAndSession>>

\* step 4: score and rank, at the moment Date.now() gives
ProcessRank ==
    /\ processing.stage = "with_media"
    /\ \E nowTime \in Moments :
         /\ \A i \in 1..Len(processing.items) :
               processing.items[i].enrichedAt <= nowTime
         /\ processing' = AtStage("ranked", processing.input, processing.items,
                                  RankResults(processing.items, nowTime))
    /\ UNCHANGED <<Store, calls, CrawlAndSession>>

\* step 5: format for display
ProcessFormat ==
    /\ processing.stage = "ranked"
    /\ processing' =
         IF FormatThrows(processing.items)
         THEN AtStage("failed", processing.input, <<>>, <<>>)
         ELSE AtStage("formatted", processing.input, processing.items,
                      FormatForDisplay(processing.items))
    /\ UNCHANGED <<Store, calls, CrawlAndSession>>

\* SmartRouter.processResults(results)
RouteResults(results) ==
    /\ processing.stage = "none"
    /\ processing' = AtStage("routed", results, results,
                             ProcessResults(results))
    /\ UNCHANGED <<Store, calls, CrawlAndSession>>

\* KoreanBeautyTracker.mergeAndDedupe(items)
MergeTrends(items) ==
    /\ processing.stage = "none"
    /\ processing' = AtStage("merged", items, items, MergeAndDedupe(items))
    /\ UNCHANGED <<Store, calls, CrawlAndSession>>

NextProcess ==
    \/ \E rawResults \in RawLists : ProcessDeduplicate(rawResults)
    \/ ProcessEnrich
    \/ ProcessMediaStep
    \/ ProcessRank
    \/ ProcessFormat
    \/ \E results \in RawLists : RouteResults(results)
    \/ \E items \in ListsUpTo(TrendPool, MaxItems) : MergeTrends(items)

SpecProcess == Init /\ [][NextProcess]_vars

(* ----------------------------------------- the enrichers on long lists *)
\* what runTracker has collected after searches that gave n items in all
CollectedList(n) ==
    [i \in 1..n |-> ToTrackerResult([Raw1 EXCEPT !.score = i])]

\* n items as the adapters of the pipeline return them
AdapterList(n) == [i \in 1..n |-> [Item1 EXCEPT !.mentions = i]]

\* enrichResults(results, prompt): the list it was given, the payload of its
\* completion call (none for an empty list) and the list it returned; the
\* stage tells whether the content of the answer was JSON with an array
\* under "results"
EnrichCall(results) ==
    /\ processing.stage = "none"
    /\ \E outcome \in IF results = <<>> THEN {NoCompletion}
                      ELSE CompletionOutcomes(EnrichPayload(results)) :
         LET enriched == EnrichResults(results, outcome)
             answered == outcome.kind = "json" /\ outcome.results.kind = "array"
         IN  processing' =
               AtStage(IF answered THEN "enrich_answered" ELSE "enrich_other",
                       results,
                       IF results = <<>> THEN <<>> ELSE EnrichPayload(results),
                       IF enriched.kind = "array" THEN enriched.items ELSE <<>>)
    /\ UNCHANGED <<Store, calls, CrawlAndSession>>

\* enrichWithAI(results, config): the list it was given, the batches of its
\* completion calls and the list it returned; each analysis gives one score
\* to the items of its batch, or the call throws
EnrichBatches(results) ==
    /\ processing.stage = "none"
    /\ \E now \in Moments :
       \E kinds \in [1..Len(Batches(results)) -> Scores \cup {NoCount}] :
         LET batches == Batches(results)
             analyses == [b \in 1..Len(batches) |->
                            IF kinds[b] = NoCount
                            THEN [kind |-> "throw", items |-> <<>>]
                            ELSE [kind |-> "json",
                                  items |-> [i \in 1..Len(batches[b]) |->
                                                kinds[b]]]]
             e == EnrichWithAI(results, analyses, now)
         IN  processing' =
               IF e.threw
               THEN AtStage("batches_failed", results, batches, <<>>)
               ELSE AtStage("batched", results, batches, e.items)
    /\ UNCHANGED <<Store, calls, CrawlAndSession>>

NextEnrich ==
    \/ \E n \in 0..MaxCollected : EnrichCall(CollectedList(n))
    \/ \E n \in 0..MaxCollected : EnrichBatches(AdapterList(n))

SpecEnrich == Init /\ [][NextEnrich]_vars

(* ------------------------------------------- FirecrawlService.crawlSite *)
\* the statuses checkCrawlStatus may report for a job
CrawlStatuses == {"scraping", "completed", "failed"}

\* {success: true, data}
CrawlSuccess == [success |-> TRUE, error |-> Undefined]

\* the catch of crawlSite: {success: false, error}
CrawlFailure == [success |-> FALSE, error |-> "Crawl failed"]

\* the call after its return
CrawlReturned(ret) == [IdleCrawl EXCEPT !.pc = "done", !.ret = ret]

\* crawlSite(url, maxPages): call j starts the crawl; crawlUrl may throw
CrawlSite(j) ==
    /\ crawl[j].pc = "idle"
    /\ \E started \in BOOLEAN :
         crawl' = [crawl EXCEPT ![j] =
                      IF started THEN [@ EXCEPT !.pc = "polling"]
                      ELSE CrawlReturned(CrawlFailure)]
    /\ UNCHANGED <<Store, calls, processing, session>>

\* one turn of while (true): checkCrawlStatus throws, or reports a status;
\* the loop is left on 'completed' and on no other status
CheckCrawlStatus(j) ==
    /\ crawl[j].pc = "polling"
    /\ \E outcome \in CrawlStatuses \cup {"throw"} :
         crawl' = [crawl EXCEPT ![j] =
                      CASE outcome = "throw" -> CrawlReturned(CrawlFailure)
                        [] outcome = "completed" -> CrawlReturned(CrawlSuccess)
                        [] OTHER ->
                             [@ EXCEPT !.pc = "waiting",
                                       !.status = outcome,
                                       !.polls = Min(@ + 1, MaxPolls)]]
    /\ UNCHANGED <<Store, calls, processing, session>>

\* await new Promise(resolve => setTimeout(resolve, 2000)): the timer fires
Sleep(j) ==
    /\ crawl[j].pc = "waiting"
    /\ crawl' = [crawl EXCEPT ![j].pc = "polling"]
    /\ UNCHANGED <<Store, calls, processing, session>>

NextCrawl ==
    \/ \E j \in Jobs : CrawlSite(j)
    \/ \E j \in Jobs : CheckCrawlStatus(j)
    \/ \E j \in Jobs : Sleep(j)

\* The event loop runs every continuation that is ready: a call that awaits
\* the status gets its answer, and a timer that was set fires.
SpecCrawl ==
    /\ Init
    /\ [][NextCrawl]_vars
    /\ \A j \in Jobs : WF_vars(CheckCrawlStatus(j)) /\ WF_vars(Sleep(j))

(* ------------------------------------------------- row level security *)
\* The callers of the store: the anonymous key of lib/supabase/client.ts
\* (auth.uid() is null), two signed-in users, and a role that row level
\* security does not apply to (the owner of the tables).
Anonymous == "anon"
Users == {"alice", "bob"}
ServiceRole == "service_role"
Callers == {Anonymous, ServiceRole} \cup Users

\* auth.uid()
AuthUid(caller) == IF caller \in Users THEN caller ELSE Undefined

\* a = b as a policy reads it: not true when a side is null
SqlEquals(a, b) == a # Undefined /\ b # Undefined /\ a = b

\* ENABLE ROW LEVEL SECURITY binds every role but the owner of the table
BypassesRls(caller) == caller = ServiceRole

\* trackers FOR SELECT USING (is_public = true OR auth.uid() = user_id)
TrackerVisible(caller, row) ==
    row.is_public \/ SqlEquals(AuthUid(caller), row.user_id)

\* trackers FOR INSERT WITH CHECK (auth.uid() = user_id)
TrackerInsertCheck(caller, row) == SqlEquals(AuthUid(caller), row.user_id)

\* trackers FOR UPDATE USING (auth.uid() = user_id)
TrackerUpdateCheck(caller, row) == SqlEquals(AuthUid(caller), row.user_id)

\* the runs shown to every caller
RunVisible_ToEveryone(caller, row) == TRUE

\* tracker_runs FOR SELECT USING (EXISTS (SELECT 1 FROM trackers WHERE
\* id = tracker_runs.tracker_id AND (is_public = true OR user_id = auth.uid())))
RunVisible(caller, row) ==
    \E t \in DOMAIN trackers :
        /\ t = row.tracker_id
        /\ trackers[t].is_public
             \/ SqlEquals(trackers[t].user_id, AuthUid(caller))

\* tracker_results FOR SELECT: the same, on tracker_results.tracker_id
ResultVisible(caller, row) ==
    \E t \in DOMAIN trackers :
        /\ t = row.tracker_id
        /\ trackers[t].is_public
             \/ SqlEquals(trackers[t].user_id, AuthUid(caller))

\* tracker_runs and tracker_results have no policy FOR INSERT: with row level
\* security enabled, no row passes
RunInsertCheck(caller, row) == FALSE
ResultInsertCheck(caller, rows) == FALSE

\* what the policies let a caller do
Permitted(caller, check) == BypassesRls(caller) \/ check

\* insert into trackers the row createTracker inserts (user_id null,
\* is_public true) or the row of a signed-in client
InsertTrackerAs(caller, user_id, isPublic) ==
    LET row == [TrackerA EXCEPT !.user_id = user_id, !.is_public = isPublic]
        ok == Permitted(caller, TrackerInsertCheck(caller, row))
        id == FreshTrackerId
    IN
    /\ lastTrackerId < MaxRows
    /\ trackers' = IF ok THEN (id :> row) @@ trackers ELSE trackers
    /\ lastTrackerId' = IF ok THEN id ELSE lastTrackerId
    /\ session' = [NoSession EXCEPT !.caller = caller, !.op = "insert",
                                    !.table = "trackers",
                                    !.user_id = user_id, !.permitted = ok,
                                    !.trackers = IF ok THEN {id} ELSE {}]
    /\ UNCHANGED <<tracker_runs, tracker_results, clock, calls, processing,
                   crawl>>

\* the owner of a tracker (or who the policy lets) sets is_public
UpdateTrackerAs(caller, t, isPublic) ==
    LET ok == Permitted(caller, TrackerUpdateCheck(caller, trackers[t])) IN
    /\ t \in DOMAIN trackers
    /\ trackers' = IF ok THEN [trackers EXCEPT ![t].is_public = isPublic]
                   ELSE trackers
    /\ session' = [NoSession EXCEPT !.caller = caller, !.op = "update",
                                    !.table = "trackers", !.permitted = ok,
                                    !.trackers = IF ok THEN {t} ELSE {}]
    /\ UNCHANGED <<tracker_runs, tracker_results, clock, lastTrackerId, calls,
                   processing, crawl>>

\* insert into tracker_runs the row runTracker inserts for tracker t
InsertRunAs(caller, t) ==
    LET row == NewRunRow(t, clock)
        ok == Permitted(caller, RunInsertCheck(caller, row))
        id == Cardinality(DOMAIN tracker_runs) + 1
    IN
    /\ t \in DOMAIN trackers
    /\ Cardinality(DOMAIN tracker_runs) < MaxRows
    /\ tracker_runs' = IF ok THEN (id :> row) @@ tracker_runs
                       ELSE tracker_runs
    /\ clock' = IF ok THEN clock + 1 ELSE clock
    /\ session' = [NoSession EXCEPT !.caller = caller, !.op = "insert",
                                    !.table = "tracker_runs",
                                    !.permitted = ok,
                                    !.runs = IF ok THEN {id} ELSE {}]
    /\ UNCHANGED <<trackers, tracker_results, lastTrackerId, calls,
                   processing, crawl>>

\* insert into tracker_results the rows runTracker inserts for run r: one
\* collected item, with the references of the run and of its tracker
InsertResultsAs(caller, r) ==
    LET rows == ResultsToInsert(r, r, tracker_runs[r].tracker_id,
                                CollectedList(1))
        ok == Permitted(caller, ResultInsertCheck(caller, rows))
    IN
    /\ r \in DOMAIN tracker_runs
    /\ tracker_results' = IF ok THEN tracker_results \cup rows
                          ELSE tracker_results
    /\ session' = [NoSession EXCEPT !.caller = caller, !.op = "insert",
                                    !.table = "tracker_results",
                                    !.permitted = ok,
                                    !.results = IF ok THEN rows ELSE {}]
    /\ UNCHANGED <<trackers, tracker_runs, clock, lastTrackerId, calls,
                   processing, crawl>>

\* select * from the three tables: the rows the policies show the caller
SelectAs(caller) ==
    /\ session' =
         [NoSession EXCEPT
            !.caller = caller, !.op = "select", !.table = "all",
            !.permitted = TRUE,
            !.trackers = {t \in DOMAIN trackers :
                            Permitted(caller,
                                      TrackerVisible(caller, trackers[t]))},
            !.runs = {r \in DOMAIN tracker_runs :
                        Permitted(caller,
                                  RunVisible(caller, tracker_runs[r]))},
            !.results = {row \in tracker_results :
                            Permitted(caller, ResultVisible(caller, row))}]
    /\ UNCHANGED <<Store, calls, processing, crawl>>

NextPolicies ==
    \/ \E caller \in Callers, user_id \in Users \cup {Undefined},
          isPublic \in BOOLEAN : InsertTrackerAs(caller, user_id, isPublic)
    \/ \E caller \in Callers, t \in DOMAIN trackers, isPublic \in BOOLEAN :
          UpdateTrackerAs(caller, t, isPublic)
    \/ \E caller \in Callers, t \in DOMAIN trackers : InsertRunAs(caller, t)
    \/ \E caller \in Callers, r \in DOMAIN tracker_runs :
          InsertResultsAs(caller, r)
    \/ \E caller \in Callers : SelectAs(caller)

SpecPolicies == Init /\ [][NextPolicies]_vars

(* ---------------------------------------------------------- properties *)
RunStatus(r) ==
    IF r \in DOMAIN tracker_runs THEN tracker_runs[r].status ELSE "none"

\* invocation p has returned, and had inserted its run
ReturnedWithRun(p) == calls[p].pc = "done" /\ calls[p].run # NoId

RowsOfRun(r) == {row \in tracker_results : row.run_id = r}

\* C1: every run that runTracker created has reached status completed or
\* failed by the time runTracker returns, whichever later step succeeded or
\* threw; no run is left in status running.
C1_RunEndsCompletedOrFailed ==
    \A p \in Calls :
        ReturnedWithRun(p) =>
            RunStatus(calls[p].run) \in {"completed", "failed"}

\* C2: when runTracker returns a failure for a run it has created, the stored
\* status of that run is failed and its error text is set.
C2_FailureStoredAsFailed ==
    \A p \in Calls :
        ReturnedWithRun(p) /\ ~calls[p].ret.success =>
            /\ RunStatus(calls[p].run) = "failed"
            /\ tracker_runs[calls[p].run].error # Undefined

\* a step from status a to status b that the claimed life cycle allows
PendingLifeCycle(a, b) ==
    \/ a = b
    \/ a = "pending" /\ b = "running"
    \/ a = "running" /\ b \in {"completed", "failed"}

\* C3 as claimed: a run is created as pending, and its status only moves
\* pending -> running -> completed or failed; a completed or failed run keeps
\* its status.
C3_PendingRunningTerminal ==
    [][\A r \in DOMAIN tracker_runs' :
          IF r \in DOMAIN tracker_runs
          THEN PendingLifeCycle(tracker_runs[r].status, tracker_runs'[r].status)
          ELSE tracker_runs'[r].status = "pending"]_vars

\* C3 as amended: a run is created as running (pending is never stored), its
\* status only moves running -> completed or running -> failed, and a
\* completed or failed run keeps its status; no run is removed.
C3_RunningThenTerminal ==
    [][/\ DOMAIN tracker_runs \subseteq DOMAIN tracker_runs'
       /\ \A r \in DOMAIN tracker_runs' :
            IF r \in DOMAIN tracker_runs
            THEN \/ tracker_runs'[r].status = tracker_runs[r].status
                 \/ /\ tracker_runs[r].status = "running"
                    /\ tracker_runs'[r].status \in {"completed", "failed"}
            ELSE tracker_runs'[r].status = "running"]_vars

\* a run has been created and has moved to completed while another is running
C3_Witness ==
    \E r, q \in DOMAIN tracker_runs :
        tracker_runs[r].status = "completed" /\ tracker_runs[q].status = "running"

\* C4: when the insert into tracker_results returns an error, runTracker
\* reports a failure to its caller and the run is not marked completed.
C4_InsertErrorFailsTheRun ==
    \A p \in Calls :
        "results_insert_error" \in calls[p].log =>
            /\ calls[p].pc = "done" => ~calls[p].ret.success
            /\ RunStatus(calls[p].run) # "completed"

\* what one search outcome is to contribute: nothing when the search threw or
\* answered without data, else its items
ItemsOf(outcome) ==
    IF outcome.kind = "ok" /\ outcome.data.kind = "array"
    THEN Map(outcome.data.items, ToTrackerResult)
    ELSE <<>>

Collected(outcomes) == Flatten(Map(outcomes, ItemsOf))

C7_EmptyPromptRejected ==
    /\ \A t \in DOMAIN trackers : trackers[t].prompt # ""
    /\ \A r \in DOMAIN tracker_runs :
          tracker_runs[r].tracker_id \in DOMAIN trackers =>
              trackers[tracker_runs[r].tracker_id].prompt # ""

CompletedRunsOf(trackerId) ==
    {r \in RunsOf(trackerId) : tracker_runs[r].status = "completed"}

\* C9: for a tracker that has a completed run, getTrackerWithResults returns
\* the most recent completed run and all the results of that run, by score
\* descending; never a run that is running or failed in its place.
C9_LatestResultsOfCompletedRun ==
    \A t \in DOMAIN trackers :
        LET got == GetTrackerWithResults(t) IN
        CompletedRunsOf(t) # {} =>
            /\ got.latestRun \in CompletedRunsOf(t)
            /\ \A q \in CompletedRunsOf(t) :
                  tracker_runs[q].started_at
                      <= tracker_runs[got.latestRun].started_at
            /\ Range(got.results) = RowsOfRun(got.latestRun)
            /\ \A i, j \in 1..Len(got.results) :
                  i < j => got.results[i].score >= got.results[j].score

DeletedTrackers == (1..lastTrackerId) \ DOMAIN trackers

\* C11: once a tracker is deleted, in every later state no run references it,
\* no result references it, and no result references one of its runs (a run
\* that is no more).
C11_DeleteCascades ==
    \A d \in DeletedTrackers :
        /\ \A r \in DOMAIN tracker_runs : tracker_runs[r].tracker_id # d
        /\ \A row \in tracker_results :
              /\ row.tracker_id # d
              /\ row.run_id \in DOMAIN tracker_runs \cup {NoId}

\* a tracker is deleted whose run had been inserted, by an invocation that has
\* gone on to the end, while another invocation still holds results to insert
C11_Witness ==
    /\ DeletedTrackers # {}
    /\ \E p, q \in Calls :
          /\ calls[p].pc = "done" /\ calls[p].ret.success
          /\ calls[p].run # NoId /\ calls[p].run \notin DOMAIN tracker_runs
          /\ calls[q].pc = "insert_results"

\* item is in the list as an item of its own (its title, URL and source, with
\* its images), or merged into one (its source and its images added to it)
Represented(item, items) ==
    \E k \in 1..Len(items) :
        /\ Range(item.images.items) \subseteq Range(items[k].images.items)
        /\ \/ /\ items[k].title = item.title
              /\ items[k].url = item.url
              /\ items[k].source = item.source
           \/ item.source \in Range(items[k].sources)

\* a trend is in the list under its name in lower case, with its platforms
\* and its images
TrendRepresented(item, items) ==
    \E k \in 1..Len(items) :
        /\ ~Falsy(items[k].productName)
        /\ ~Falsy(item.productName)
        /\ ToLowerCase(items[k].productName) = ToLowerCase(item.productName)
        /\ Range(item.platforms) \subseteq Range(items[k].platforms)
        /\ Range(item.images) \subseteq Range(items[k].images)

\* what deduplicateResults alone keeps of its input
DeduplicateResultsKeepsAll ==
    processing.stage = "deduped" =>
        \A i \in 1..Len(processing.input) :
            Represented(processing.input[i], processing.items)

\* C12: whatever the input list, each of its items is represented in the
\* output of the deduplication (deduplicateResults, processResults,
\* mergeAndDedupe), as an item of its own or merged into one; none is dropped.
C12_DeduplicationDropsNothing ==
    /\ processing.stage \in {"deduped", "routed"} =>
          \A i \in 1..Len(processing.input) :
              Represented(processing.input[i], processing.items)
    /\ processing.stage = "merged" =>
          \A i \in 1..Len(processing.input) :
              TrendRepresented(processing.input[i], processing.items)

\* the input items that have the title and the URL of input item i
SameTitleAndUrl(input, i) ==
    {j \in 1..Len(input) : /\ input[j].title = input[i].title
                           /\ input[j].url = input[i].url}

\* C13: input items of one non-empty title and one URL are merged by
\* deduplicateResults into exactly one output item, whose source list is the
\* set of the sources of all of them, that of the first included.
C13_SameTitleAndUrlMergedIntoOne ==
    processing.stage = "deduped" =>
        \A i \in 1..Len(processing.input) :
            LET input == processing.input
                group == SameTitleAndUrl(input, i)
                merged == {k \in 1..Len(processing.items) :
                              /\ processing.items[k].title = input[i].title
                              /\ processing.items[k].url = input[i].url}
            IN  /\ ~Falsy(input[i].title)
                /\ ~Falsy(input[i].url)
                /\ Cardinality(group) > 1
                => /\ Cardinality(merged) = 1
                   /\ \A k \in merged :
                         Range(processing.items[k].sources)
                             = {input[j].source : j \in group}

WithoutTitle(items) == {i \in 1..Len(items) : Falsy(items[i].title)}
WithoutName(items) == {i \in 1..Len(items) : Falsy(items[i].productName)}

\* C14: an item without a title is never merged: the output of the
\* deduplicator (deduplicateResults, mergeAndDedupe) has one item without a
\* title for each such item of the input, and none of them has taken another
\* item in.
C14_MissingTitleNeverMerged ==
    /\ processing.stage = "deduped" =>
          /\ Cardinality(WithoutTitle(processing.items))
                = Cardinality(WithoutTitle(processing.input))
          /\ \A k \in WithoutTitle(processing.items) :
                processing.items[k].sources = <<>>
    /\ processing.stage = "merged" =>
          Cardinality(WithoutName(processing.items))
              = Cardinality(WithoutName(processing.input))

NoRepeat(list) == Cardinality(Range(list)) = Len(list)

RECURSIVE SumOfMentions(_)
SumOfMentions(items) ==
    IF items = <<>> THEN 0
    ELSE Head(items).mentions + SumOfMentions(Tail(items))

\* C15: in the output of a merge no image is repeated in the image list of
\* an item, the images of every input item are in the list of the item that
\* represents it, and the counters of mentions of the items merged are
\* summed: the sum over the output is the sum over the input (over the named
\* input, for mergeAndDedupe).
C15_ImagesUnitedMentionsSummed ==
    /\ processing.stage = "deduped" =>
          /\ \A k \in 1..Len(processing.items) :
                NoRepeat(processing.items[k].images.items)
          /\ SumOfMentions(processing.items) = SumOfMentions(processing.input)
    /\ processing.stage = "merged" =>
          /\ \A k \in 1..Len(processing.items) :
                NoRepeat(processing.items[k].images)
          /\ SumOfMentions(processing.items)
                = SumOfMentions(SelectSeq(processing.input,
                                    LAMBDA t : ~Falsy(t.productName)))

\* C16: the ranker is deterministic: the list it is given is ranked in the
\* same order at whatever moment it is ranked, the order it was ranked in
\* included.
C16_RankingSameAtAnyMoment ==
    processing.stage = "ranked" =>
        \A nowTime \in Moments :
            RankResults(processing.previous, nowTime) = processing.items

HasImages(a) == Len(a.images.items) > 0

\* C17: in the order of the ranker (rankResults, processResults) an item with
\* images is never below an item without, whatever their scores, dates and
\* sources; in rankResults the relevance score decides between items of equal
\* media presence.
C17_MediaBeforeEverythingElse ==
    /\ processing.stage \in {"ranked", "routed"} =>
          \A i, j \in 1..Len(processing.items) :
              i < j /\ HasImages(processing.items[j])
                  => HasImages(processing.items[i])
    /\ processing.stage = "ranked" =>
          \A i, j \in 1..Len(processing.items) :
              /\ i < j
              /\ HasImages(processing.items[i]) = HasImages(processing.items[j])
              => processing.items[i].relevanceScore
                    >= processing.items[j].relevanceScore

\* the pairs of items of a list that have one URL
SharedUrlPairs(list) ==
    {<<i, j>> \in (1..Len(list)) \X (1..Len(list)) :
        i < j /\ list[i].url = list[j].url}

\* C18: of five items of which exactly two share a URL the pipeline yields
\* four, by relevance score descending, and among equal scores the items with
\* media first.
C18_FiveItemsOneSharedUrlGiveFour ==
    /\ processing.stage = "formatted"
    /\ Len(processing.input) = 5
    /\ Cardinality(SharedUrlPairs(processing.input)) = 1
    => /\ Len(processing.items) = 4
       /\ \A i, j \in 1..Len(processing.items) :
             i < j =>
                \/ processing.items[i].relevance > processing.items[j].relevance
                \/ /\ processing.items[i].relevance
                         = processing.items[j].relevance
                   /\ processing.items[j].media # <<>>
                         => processing.items[i].media # <<>>

StepOf(p) ==
    /\ calls'[p] # calls[p]
    /\ \A q \in Calls \ {p} : calls'[q] = calls[q]

\* C20: whatever the interleaving of the invocations of runTracker, a run
\* record is changed only by a step of the invocation that created it, and a
\* result is stored only by a step of the invocation that collected it, with
\* the reference of the run of that invocation.
C20_RunsAndResultsOfTheirInvocation ==
    [][/\ \A r \in DOMAIN tracker_runs \cap DOMAIN tracker_runs' :
            tracker_runs'[r] # tracker_runs[r] =>
                \E p \in Calls : StepOf(p) /\ calls[p].run = r
       /\ \A row \in tracker_results' \ tracker_results :
            \E p \in Calls :
                /\ StepOf(p)
                /\ calls[p].run # NoId
                /\ row.run_id = calls[p].run
                /\ \E i \in 1..Len(calls[p].enriched.items) :
                      /\ row.title = calls[p].enriched.items[i].title
                      /\ row.url = calls[p].enriched.items[i].url]_vars

\* two invocations on one tracker have each completed its run and stored its
\* results
C20_Witness ==
    \E p, q \in Calls :
        /\ p # q
        /\ calls[p].trackerId = calls[q].trackerId
        /\ RunStatus(calls[p].run) = "completed"
        /\ RunStatus(calls[q].run) = "completed"
        /\ RowsOfRun(calls[p].run) # {}
        /\ RowsOfRun(calls[q].run) # {}

\* C30: runTracker called with the identifier of no existing tracker returns
\* the failure 'Tracker not found' and leaves the store as it was: the step
\* that finds no tracker is its last, no run and no result is created, and no
\* search and no completion call was made.
C30_NoTrackerNothingDone ==
    [][\A p \in Calls :
          (/\ calls[p].pc = "select"
           /\ calls[p].trackerId \notin DOMAIN trackers
           /\ calls'[p] # calls[p])
          => /\ calls'[p].pc = "done"
             /\ calls'[p].ret = [success |-> FALSE,
                                 error |-> "Tracker not found"]
             /\ calls'[p].run = NoId
             /\ calls[p].outcomes = <<>> /\ calls[p].log = {}
             /\ calls'[p].log = {}
             /\ UNCHANGED <<trackers, tracker_runs, tracker_results>>]_vars

\* an invocation on an identifier that no tracker ever had has returned
C30_Witness ==
    \E p \in Calls :
        /\ calls[p].pc = "done"
        /\ calls[p].trackerId # NoId
        /\ lastTrackerId < calls[p].trackerId
        /\ calls[p].ret.error = "Tracker not found"

\* C24: for every non-empty prompt, the tracker that creation from a prompt
\* stores has a configuration that contains a query list and a source list,
\* also when the model call failed or answered JSON without those keys.
C24_ConfigHasQueriesAndSources ==
    \A t \in DOMAIN trackers :
        trackers[t].prompt # "" =>
            /\ trackers[t].config.queries.kind = "array"
            /\ trackers[t].config.platforms.kind = "array"

\* C27: a tracker created through the POST handler with isPublic false is
\* stored private, and a tracker is stored public only when isPublic was true
\* or absent in the body.
C27_PostIsPublicFalseStoredPrivate ==
    \A body \in PostBodies :
        ~PostRejected(body) =>
            \A outcome \in ParseOutcomes :
                LET e == CreateTrackerEffect(PostConfig(body), outcome, TRUE)
                IN  e.success =>
                        (e.table[e.id].is_public <=> body.isPublic # "false")

\* C28: for every completed run, the results_count recorded with the run is
\* the number of results stored with the reference of that run (a run whose
\* metadata holds no count, the length having been undefined, is left aside).
C28_ResultsCountIsRowsStored ==
    \A r \in DOMAIN tracker_runs :
        (/\ tracker_runs[r].status = "completed"
         /\ tracker_runs[r].results_count # NoCount) =>
            tracker_runs[r].results_count = Cardinality(RowsOfRun(r))

\* C29: last_run_at of a tracker changes only when one of its runs has
\* reached completed, and the step on which runTracker returns a failure
\* leaves the trackers as they were.
C29_LastRunAtOnlyWhenCompleted ==
    [][/\ \A t \in DOMAIN trackers \cap DOMAIN trackers' :
            trackers'[t].last_run_at # trackers[t].last_run_at =>
                \E r \in DOMAIN tracker_runs' :
                    /\ tracker_runs'[r].tracker_id = t
                    /\ tracker_runs'[r].status = "completed"
       /\ \A p \in Calls :
            (StepOf(p) /\ calls'[p].pc = "done" /\ ~calls'[p].ret.success)
                => \A t \in DOMAIN trackers \cap DOMAIN trackers' :
                      trackers'[t].last_run_at = trackers[t].last_run_at]_vars

\* C25: every completion call an enricher makes carries at most 10 items,
\* for lists of any length: the payload of enrichResults and every batch of
\* enrichWithAI, and the payload is the head of the list.
C25_AtMostTenItemsPerCall ==
    /\ processing.stage \in {"enrich_answered", "enrich_other"} =>
          /\ Len(processing.previous) <= 10
          /\ Len(processing.previous) <= Len(processing.input)
          /\ processing.previous
                = SubSeq(processing.input, 1, Len(processing.previous))
    /\ processing.stage \in {"batched", "batches_failed"} =>
          \A b \in 1..Len(processing.previous) :
              Len(processing.previous[b]) <= 10

\* enrichResults was given more than 10 items and has made its call
C25_Witness ==
    /\ processing.stage = "enrich_answered"
    /\ Len(processing.input) > 10
    /\ Len(processing.previous) = 10

\* C26: enrichment loses no item: for a list of any length and a well-formed
\* answer of the model, enrichResults returns one item per item it was given.
C26_EnrichmentLosesNoItem ==
    processing.stage = "enrich_answered" =>
        /\ Len(processing.items) = Len(processing.input)
        /\ \A i \in 1..Len(processing.input) :
              \E j \in 1..Len(processing.items) :
                  /\ processing.items[j].title = processing.input[i].title
                  /\ processing.items[j].url = processing.input[i].url

\* C23: the status polling loop of crawlSite terminates for every sequence
\* of crawl statuses, also when the job reports failure or never reports
\* completed: a call that polls returns.
C23_CrawlSiteTerminates ==
    \A j \in Jobs : (crawl[j].pc = "polling") ~> (crawl[j].pc = "done")

\* C21: an anonymous client can create and run a tracker: under the row level
\* security policies, the inserts that createTracker and runTracker make with
\* no signed-in user and no user_id, into trackers, tracker_runs and
\* tracker_results, are permitted.
C21_AnonymousInsertsPermitted ==
    (/\ session.op = "insert"
     /\ session.caller = Anonymous
     /\ session.user_id = Undefined) => session.permitted

\* the caller owns tracker t
Owns(caller, t) == caller \in Users /\ trackers[t].user_id = caller

\* tracker t is public or the caller's own
MayRead(caller, t) ==
    t \in DOMAIN trackers /\ (trackers[t].is_public = TRUE \/ Owns(caller, t))

\* C22: a tracker, its runs and its results are read only when the tracker is
\* public or the caller is its owner: a caller that is not the owner never
\* reads a private tracker, a run of one, or a result of one or of a run of
\* one.
C22_PrivateReadByOwnerOnly ==
    (session.op = "select" /\ ~BypassesRls(session.caller)) =>
        /\ \A t \in session.trackers : MayRead(session.caller, t)
        /\ \A r \in session.runs :
              MayRead(session.caller, tracker_runs[r].tracker_id)
        /\ \A row \in session.results :
              /\ MayRead(session.caller, row.tracker_id)
              /\ MayRead(session.caller, tracker_runs[row.run_id].tracker_id)

\* a signed-in user has read the tables while another user's private tracker
\* has a run and a result, and has read a run and a result of a tracker that
\* it may read
C22_Witness ==
    /\ session.op = "select"
    /\ session.caller \in Users
    /\ \E t \in DOMAIN trackers, r \in DOMAIN tracker_runs :
          /\ ~MayRead(session.caller, t)
          /\ tracker_runs[r].tracker_id = t
          /\ \E row \in tracker_results : row.run_id = r
          /\ r \notin session.runs
    /\ session.runs # {}
    /\ session.results # {}

====
